---- MODULE Spec2Model ----
(***************************************************************************)
(* SurrealSessionStore (actix-session-surrealdb): the session-record       *)
(* lifecycle of src/src/lib.rs over a keyed document store, with the       *)
(* expiry arithmetic of src/src/dates.rs and the key generator of          *)
(* src/src/session_key.rs.                                                 *)
(*                                                                         *)
(* State: the table of KeyRecords held by the backing store, the wall      *)
(* clock (milliseconds), the build's overflow behaviour, and the history   *)
(* of the most recent calls with their results.                            *)
(*                                                                         *)
(* Spec: the five operations called one after another.  SpecDates: the     *)
(* expiry calculator alone, over the whole range of TTLs.  SpecForeign:    *)
(* load and save over a table that other programs write too.  SpecConc:    *)
(* the operations of concurrent requests, load interleaved at its awaits.  *)
(***************************************************************************)
EXTENDS Integers, Sequences, FiniteSets, TLC

\* ------------------------------------------------------------------ bounds

\* The clock runs 0..MaxNow milliseconds.
MaxNow == 1

\* Width of the machine integer standing for i64 (the i128 of
\* whole_milliseconds is unbounded here).  Everything below scales with it.
IntBits == 5

\* ---------------------------------------------------------------- integers

I64Max == 2 ^ (IntBits - 1) - 1
I64Min == - (2 ^ (IntBits - 1))
I64Mod == 2 ^ IntBits

\* chrono's NaiveDateTime range in milliseconds: a strict sub-range of i64,
\* far enough inside it that a wrapped sum never lands in it.
ChronoMax == 2 ^ (IntBits - 2)
ChronoMin == - (2 ^ (IntBits - 2))

\* `n as i64`: two's-complement truncation.
WrapI64(n) == ((n - I64Min) % I64Mod) + I64Min

NoneOpt == [some |-> FALSE, v |-> 0]
SomeOpt(x) == [some |-> TRUE, v |-> x]

\* dates.rs:5-11.  Only the upper side is range-checked.
i128_into_i64(n) == IF n > I64Max THEN NoneOpt ELSE SomeOpt(WrapI64(n))

\* NaiveDateTime::from_timestamp_millis: None outside chrono's range.
from_timestamp_millis(x) ==
    IF x >= ChronoMin /\ x <= ChronoMax THEN SomeOpt(x) ELSE NoneOpt

\* dates.rs:13-22.  `Utc::now().timestamp_millis() + offset` is an i64
\* addition: on overflow it panics when the build checks overflow and wraps
\* otherwise.  kind is "Some", "None" or "Panic".
add_duration_to_current(t, ttl, checks) ==
    LET off == i128_into_i64(ttl)
        sum == t + off.v
        over == sum > I64Max \/ sum < I64Min
        ts == from_timestamp_millis(WrapI64(sum))
    IN  IF ~off.some THEN [kind |-> "None", ts |-> 0]
        ELSE IF over /\ checks THEN [kind |-> "Panic", ts |-> 0]
        ELSE IF ~ts.some THEN [kind |-> "None", ts |-> 0]
        ELSE [kind |-> "Some", ts |-> ts.v]

\* -------------------------------------------------------------- data model

\* Session identifiers (session_key.rs generates 64 alphanumeric characters;
\* two distinct values stand for them).
Keys == {"k1", "k2"}

\* lib.rs:117  SessionState = HashMap<String, String>.
States == {("user_id" :> "42"), ("user_id" :> "43")}

NoState == [x \in {} |-> ""]

\* serde_json::to_string of a SessionState (lib.rs:166, 200): a JSON object.
to_json(s) == [form |-> "object", pairs |-> {<<f, s[f]>> : f \in DOMAIN s}]

\* serde_json::from_str::<Option<SessionState>> (lib.rs:162): an object of
\* strings is Some(map), the text null is None, anything else is an error.
from_json(tok) ==
    IF tok.form = "object"
    THEN [kind |-> "Some",
          state |-> [f \in {p[1] : p \in tok.pairs} |->
                        (CHOOSE p \in tok.pairs : p[1] = f)[2]]]
    ELSE IF tok.form = "null" THEN [kind |-> "None", state |-> NoState]
    ELSE [kind |-> "Err", state |-> NoState]

\* lib.rs:120-125.
KeyRecord(id, token, expiry) == [id |-> id, token |-> token, expiry |-> expiry]

\* lib.rs:127-131: each field is an Option; tokenSet / expirySet say whether
\* the field is supplied.
KeyRecordPatch(tokenSet, token, expirySet, expiry) ==
    [tokenSet |-> tokenSet, token |-> token,
     expirySet |-> expirySet, expiry |-> expiry]

\* The table before any session is saved.
EmptyStore == [k \in {} |-> KeyRecord(k, to_json(NoState), 0)]

Has(st, k) == k \in DOMAIN st

\* ----------------------------------------------------------- backing store
\* Each call may fail (fail = TRUE: the store is unreachable or rejects the
\* call); a failed call leaves the table as it was.

\* lib.rs:142  client.select(thing) -> Result<Option<KeyRecord>>.
StoreSelect(st, k, fail) ==
    IF fail THEN [ok |-> FALSE, found |-> FALSE, st |-> st]
    ELSE [ok |-> TRUE, found |-> Has(st, k), st |-> st]

\* Mutant of StoreCreate: a record whose id is taken replaces the old one.
StoreCreateOverwrite(st, rec, fail) ==
    IF fail THEN [ok |-> FALSE, st |-> st]
    ELSE [ok |-> TRUE, st |-> (rec.id :> rec) @@ st]

\* lib.rs:177-188  client.create(tb).content(record): a record whose id is
\* taken is rejected.
StoreCreate(st, rec, fail) ==
    IF fail \/ Has(st, rec.id) THEN [ok |-> FALSE, st |-> st]
    ELSE [ok |-> TRUE, st |-> (rec.id :> rec) @@ st]

\* Merge of a patch into a record: the supplied fields replace, the fields
\* not supplied (None) and the id stay (merge-patch, spec 4.4 and 9).
MergeFields(rec, patch) ==
    [id |-> rec.id,
     token |-> IF patch.tokenSet THEN patch.token ELSE rec.token,
     expiry |-> IF patch.expirySet THEN patch.expiry ELSE rec.expiry]

\* merge-update of an identifier that has no record: a failure, nothing is
\* written ("record no longer exists", spec 4.4 update step 3).
StoreMergeMissing(st, k, patch) == [ok |-> FALSE, st |-> st]

\* lib.rs:220, 251  client.update(thing).merge(patch).
StoreMerge(st, k, patch, fail) ==
    IF fail THEN [ok |-> FALSE, st |-> st]
    ELSE IF ~Has(st, k) THEN StoreMergeMissing(st, k, patch)
    ELSE [ok |-> TRUE, st |-> [st EXCEPT ![k] = MergeFields(@, patch)]]

\* Mutant of StoreDelete: the delete names the table, not the record, and
\* removes every record of it.
StoreDeleteTable(st, k, fail) ==
    IF fail THEN [ok |-> FALSE, st |-> st]
    ELSE [ok |-> TRUE, st |-> EmptyStore]

\* lib.rs:158, 237, 263  client.delete(thing): removing a record that is
\* not there succeeds.
StoreDelete(st, k, fail) ==
    IF fail THEN [ok |-> FALSE, st |-> st]
    ELSE [ok |-> TRUE, st |-> [x \in (DOMAIN st) \ {k} |-> st[x]]]

\* ------------------------------------------------------------------- state

VARIABLES
    store,           \* the table: identifier -> KeyRecord, for the records present
    now,             \* Utc::now().timestamp_millis()
    overflowChecks,  \* whether this build panics on integer overflow
    last,            \* the most recent call since the clock moved, or Idle
    savedEver,       \* the identifiers that successful saves have returned
    evicted,         \* identifiers a load found expired, until a save mints them anew
    pending          \* the identifier of a load suspended between its select and
                     \* its delete (lib.rs:142, 158), or NoPending

vars == <<store, now, overflowChecks, last, savedEver, evicted, pending>>

\* TTLs in milliseconds (Duration::whole_milliseconds, an i128): a value
\* below the smallest i64 that `as i64` truncates to +1, then negative, zero,
\* positive, and the largest i64.
TTLs == {2 * I64Min + 1, -1, 0, 1, I64Max}

\* What a call returns and the table it leaves.  res is one of "Some", "None",
\* "Ok", "ErrOther", "ErrDeser", "Err", "Panic"; fail is the store call that
\* failed ("none", "read", "write"); dur is what the expiry computation gave
\* ("Some", "None", "Panic"), or "unused" when the call made none.
Out(res, rstate, rkey, st, fail, dur) ==
    [res |-> res, rstate |-> rstate, rkey |-> rkey, st |-> st, fail |-> fail,
     dur |-> dur]

\* -------------------------------------------------------------- operations

\* Mutant of IsExpired: a record whose expiry equals the clock counts as
\* expired.
IsExpiredInclusive(rec, t) == rec.expiry <= t

\* lib.rs:157  record.expiry.timestamp_millis() < Utc::now().timestamp_millis()
IsExpired(rec, t) == rec.expiry < t

\* lib.rs:135-163.  readFail / delFail: whether the select / the delete fails.
load(st, t, k, readFail, delFail) ==
    LET sel == StoreSelect(st, k, readFail)
    IN  IF ~sel.ok THEN Out("ErrOther", NoState, "", st, "read", "unused")
        ELSE IF ~sel.found THEN Out("None", NoState, "", st, "none", "unused")
        ELSE IF IsExpired(st[k], t)
        THEN LET del == StoreDelete(st, k, delFail)
             IN  IF del.ok THEN Out("None", NoState, "", del.st, "none", "unused")
                 ELSE \* .expect("Deleting database record failed!")
                      Out("Panic", NoState, "", st, "write", "unused")
        ELSE LET d == from_json(st[k].token)
             IN  IF d.kind = "Err"
                 THEN Out("ErrDeser", NoState, "", st, "none", "unused")
                 ELSE IF d.kind = "None"
                 THEN Out("None", NoState, "", st, "none", "unused")
                 ELSE Out("Some", d.state, "", st, "none", "unused")

\* Mutant of save: when the expiry computation gives None the record is
\* written all the same, with the default timestamp.
saveIgnoringInvalid(st, t, s, ttl, key, checks, fail) ==
    LET body == to_json(s)
        e == add_duration_to_current(t, ttl, checks)
        cr == StoreCreate(st, KeyRecord(key, body, e.ts), fail)
    IN  IF e.kind = "Panic" THEN Out("Panic", NoState, "", st, "none", e.kind)
        ELSE IF ~cr.ok
        THEN Out("ErrOther", NoState, "", st, IF fail THEN "write" ELSE "none", e.kind)
        ELSE Out("Ok", NoState, key, cr.st, "none", e.kind)

\* lib.rs:165-195.  key is what generate_session_key() returned.
save(st, t, s, ttl, key, checks, fail) ==
    LET body == to_json(s)
        e == add_duration_to_current(t, ttl, checks)
        cr == StoreCreate(st, KeyRecord(key, body, e.ts), fail)
    IN  IF e.kind = "Panic" THEN Out("Panic", NoState, "", st, "none", e.kind)
        ELSE IF e.kind = "None" THEN Out("ErrOther", NoState, "", st, "none", e.kind)
        ELSE IF ~cr.ok
        THEN Out("ErrOther", NoState, "", st, IF fail THEN "write" ELSE "none", e.kind)
        ELSE Out("Ok", NoState, key, cr.st, "none", e.kind)

\* Mutant of update: when no record is there to patch, one is created under
\* the identifier passed in.
updateOrCreate(st, t, k, s, ttl, checks, fail) ==
    LET body == to_json(s)
        e == add_duration_to_current(t, ttl, checks)
        up == IF Has(st, k)
              THEN StoreMerge(st, k, KeyRecordPatch(TRUE, body, TRUE, e.ts), fail)
              ELSE StoreCreate(st, KeyRecord(k, body, e.ts), fail)
    IN  IF e.kind = "Panic" THEN Out("Panic", NoState, "", st, "none", e.kind)
        ELSE IF e.kind = "None" THEN Out("ErrOther", NoState, "", st, "none", e.kind)
        ELSE IF ~up.ok
        THEN Out("ErrOther", NoState, "", st, IF fail THEN "write" ELSE "none", e.kind)
        ELSE Out("Ok", NoState, k, up.st, "none", e.kind)

\* Mutant of update: the patch supplies the expiry only, the payload stays.
updateExpiryOnly(st, t, k, s, ttl, checks, fail) ==
    LET body == to_json(s)
        e == add_duration_to_current(t, ttl, checks)
        up == StoreMerge(st, k, KeyRecordPatch(FALSE, body, TRUE, e.ts), fail)
    IN  IF e.kind = "Panic" THEN Out("Panic", NoState, "", st, "none", e.kind)
        ELSE IF e.kind = "None" THEN Out("ErrOther", NoState, "", st, "none", e.kind)
        ELSE IF ~up.ok
        THEN Out("ErrOther", NoState, "", st, IF fail THEN "write" ELSE "none", e.kind)
        ELSE Out("Ok", NoState, k, up.st, "none", e.kind)

\* lib.rs:197-227.
update(st, t, k, s, ttl, checks, fail) ==
    LET body == to_json(s)
        e == add_duration_to_current(t, ttl, checks)
        up == StoreMerge(st, k, KeyRecordPatch(TRUE, body, TRUE, e.ts), fail)
    IN  IF e.kind = "Panic" THEN Out("Panic", NoState, "", st, "none", e.kind)
        ELSE IF e.kind = "None" THEN Out("ErrOther", NoState, "", st, "none", e.kind)
        ELSE IF ~up.ok
        THEN Out("ErrOther", NoState, "", st, IF fail THEN "write" ELSE "none", e.kind)
        ELSE Out("Ok", NoState, k, up.st, "none", e.kind)

\* Mutant of TtlDeletes: only a negative TTL deletes.
TtlDeletesNegativeOnly(ttl) == ttl < 0

\* lib.rs:236  ttl.is_zero() || ttl.is_negative()
TtlDeletes(ttl) == ttl = 0 \/ ttl < 0

\* Mutant of TtlPatch: the token is supplied, as an empty object.
TtlPatchEmptyToken(expiry) == KeyRecordPatch(TRUE, to_json(NoState), TRUE, expiry)

\* lib.rs:246-249  the patch of update_ttl: the token is not supplied.
TtlPatch(expiry) == KeyRecordPatch(FALSE, to_json(NoState), TRUE, expiry)

\* Mutant of update_ttl: with ttl > 0 and no record to patch, a record with
\* an empty payload is created under the identifier passed in.
updateTtlOrCreate(st, t, k, ttl, checks, fail) ==
    IF TtlDeletes(ttl)
    THEN LET del == StoreDelete(st, k, fail)
         IN  IF del.ok THEN Out("Ok", NoState, "", del.st, "none", "unused")
             ELSE Out("Err", NoState, "", st, "write", "unused")
    ELSE LET e == add_duration_to_current(t, ttl, checks)
             up == IF Has(st, k) THEN StoreMerge(st, k, TtlPatch(e.ts), fail)
                   ELSE StoreCreate(st, KeyRecord(k, to_json(NoState), e.ts), fail)
         IN  IF e.kind = "Panic" THEN Out("Panic", NoState, "", st, "none", e.kind)
             ELSE IF e.kind = "None" THEN Out("Err", NoState, "", st, "none", e.kind)
             ELSE IF ~up.ok
             THEN Out("Err", NoState, "", st, IF fail THEN "write" ELSE "none", e.kind)
             ELSE Out("Ok", NoState, "", up.st, "none", e.kind)

\* lib.rs:229-253.
update_ttl(st, t, k, ttl, checks, fail) ==
    IF TtlDeletes(ttl)
    THEN LET del == StoreDelete(st, k, fail)
         IN  IF del.ok THEN Out("Ok", NoState, "", del.st, "none", "unused")
             ELSE Out("Err", NoState, "", st, "write", "unused")
    ELSE LET e == add_duration_to_current(t, ttl, checks)
             up == StoreMerge(st, k, TtlPatch(e.ts), fail)
         IN  IF e.kind = "Panic" THEN Out("Panic", NoState, "", st, "none", e.kind)
             ELSE IF e.kind = "None" THEN Out("Err", NoState, "", st, "none", e.kind)
             ELSE IF ~up.ok
             THEN Out("Err", NoState, "", st, IF fail THEN "write" ELSE "none", e.kind)
             ELSE Out("Ok", NoState, "", up.st, "none", e.kind)

\* Mutant of delete: a delete that removed nothing is reported as an error.
deleteStrict(st, k, fail) ==
    LET del == StoreDelete(st, k, fail)
    IN  IF del.ok /\ Has(st, k) THEN Out("Ok", NoState, "", del.st, "none", "unused")
        ELSE Out("Err", NoState, "", st, IF fail THEN "write" ELSE "none", "unused")

\* lib.rs:255-272.
delete(st, k, fail) ==
    LET del == StoreDelete(st, k, fail)
    IN  IF del.ok THEN Out("Ok", NoState, "", del.st, "none", "unused")
        ELSE Out("Err", NoState, "", st, "write", "unused")

\* ----------------------------------------------------------------- history

Sign(n) == IF n < 0 THEN -1 ELSE IF n = 0 THEN 0 ELSE 1

Succeeded(res) == res \in {"Some", "None", "Ok"}

NoCall == [op |-> "none", state |-> NoState, sign |-> 0, seen |-> FALSE]

\* What a call says about the call right before it.  state is the state that
\* call wrote (save, update) or returned (load).  seen: an update_ttl that
\* itself came right after a load returning Some (state is then that load's
\* state); a delete that itself came right after a successful delete.
Summary(r) ==
    [op |-> r.op,
     state |-> IF r.op = "load" THEN r.rstate
               ELSE IF r.op \in {"save", "update"} THEN r.state
               ELSE IF r.op = "update_ttl" /\ r.after.op = "load"
                    THEN r.after.state ELSE NoState,
     sign |-> r.sign,
     seen |-> \/ r.op = "update_ttl" /\ r.after.op = "load"
              \/ r.op = "delete" /\ r.after.op = "delete"]

\* The summary of the call before, kept by the loads whose read succeeded and
\* by the update_ttl and delete calls that succeeded, when the call before
\* succeeded (a load: returned Some) on the same identifier; the clock has
\* not moved since, or last would be Idle.
After(r, op, k, out) ==
    IF /\ \/ op = "load" /\ out.fail # "read"
          \/ op \in {"update_ttl", "delete"} /\ out.res = "Ok"
       /\ r.op # "none"
       /\ r.res \in {"Some", "Ok"}
       /\ (IF r.op = "save" THEN r.rkey ELSE r.key) = k
    THEN Summary(r) ELSE NoCall

\* What the call found under its identifier before it acted: whether a
\* record was there and, for a load, the record it read.
Pre(st, op, k) ==
    IF Has(st, k) /\ op = "load"
    THEN [has |-> TRUE, token |-> st[k].token, expiry |-> st[k].expiry]
    ELSE [has |-> Has(st, k), token |-> to_json(NoState), expiry |-> 0]

\* One call: the operation, its identifier, the clock it ran at, its result,
\* what it found and what came right before.  The state passed is kept for
\* the calls that succeeded, the TTL for those that wrote an expiry, the
\* TTL's sign for those that succeeded and for every update_ttl.
OpRec(op, key, state, ttl, out, at, pre, after) ==
    [op |-> op, key |-> key, at |-> at,
     state |-> IF Succeeded(out.res) THEN state ELSE NoState,
     ttl |-> IF Succeeded(out.res) /\ out.dur = "Some" THEN ttl ELSE 0,
     sign |-> IF Succeeded(out.res) \/ op = "update_ttl" THEN Sign(ttl) ELSE 0,
     res |-> out.res, rstate |-> out.rstate, rkey |-> out.rkey,
     fail |-> out.fail, dur |-> out.dur, pre |-> pre, after |-> after]

NoOut == Out("none", NoState, "", EmptyStore, "none", "unused")

\* No call since the clock last moved (or since construction).
Idle == OpRec("none", "", NoState, 0, NoOut, 0, Pre(EmptyStore, "none", ""), NoCall)

\* No load is suspended between its two store calls.
NoPending == "none"

\* ------------------------------------------------------------------ actions

Init ==
    /\ store = EmptyStore
    /\ now = 0
    /\ overflowChecks \in BOOLEAN
    /\ last = Idle
    /\ savedEver = {}
    /\ evicted = {}
    /\ pending = NoPending

\* The wall clock advances.
Tick ==
    /\ now < MaxNow
    /\ now' = now + 1
    /\ last' = Idle
    /\ UNCHANGED <<store, overflowChecks, savedEver, evicted, pending>>

Call(op, k, s, ttl, o) ==
    /\ store' = o.st
    /\ last' = OpRec(op, k, s, ttl, o, now, Pre(store, op, k), After(last, op, k, o))
    /\ UNCHANGED <<now, overflowChecks, pending>>

LoadCall ==
    \E k \in Keys, readFail \in BOOLEAN, delFail \in BOOLEAN :
        /\ Call("load", k, NoState, 0, load(store, now, k, readFail, delFail))
        /\ evicted' = IF ~readFail /\ Has(store, k) /\ store[k].expiry < now
                      THEN evicted \cup {k} ELSE evicted
        /\ UNCHANGED savedEver

SaveCall ==
    \E s \in States, ttl \in TTLs, key \in Keys, fail \in BOOLEAN :
        LET o == save(store, now, s, ttl, key, overflowChecks, fail)
        IN  /\ Call("save", key, s, ttl, o)
            /\ savedEver' = IF o.res = "Ok" THEN savedEver \cup {o.rkey}
                            ELSE savedEver
            /\ evicted' = IF o.res = "Ok" THEN evicted \ {o.rkey} ELSE evicted

UpdateCall ==
    \E k \in Keys, s \in States, ttl \in TTLs, fail \in BOOLEAN :
        /\ Call("update", k, s, ttl, update(store, now, k, s, ttl, overflowChecks, fail))
        /\ UNCHANGED <<savedEver, evicted>>

UpdateTtlCall ==
    \E k \in Keys, ttl \in TTLs, fail \in BOOLEAN :
        /\ Call("update_ttl", k, NoState, ttl,
                update_ttl(store, now, k, ttl, overflowChecks, fail))
        /\ UNCHANGED <<savedEver, evicted>>

DeleteCall ==
    \E k \in Keys, fail \in BOOLEAN :
        /\ Call("delete", k, NoState, 0, delete(store, k, fail))
        /\ UNCHANGED <<savedEver, evicted>>

Next ==
    \/ Tick
    \/ LoadCall
    \/ SaveCall
    \/ UpdateCall
    \/ UpdateTtlCall
    \/ DeleteCall

Spec == Init /\ [][Next]_vars

\* ---------------------------------------------- the expiry calculator alone
\* add_duration_to_current as a function of the clock, the TTL and the build.

\* Duration::whole_milliseconds (dates.rs:14) is an i128: the TTLs run over
\* the i64 range and as far again on both sides of it.
WholeMs == (2 * I64Min) .. (2 * I64Max + 1)

\* A TTL about to be handed to the calculator.
CalcInput(ttl) ==
    [op |-> "input", ttl |-> ttl, at |-> 0, kind |-> "unused", ts |-> 0]

\* What the calculator gave for ttl at clock t: kind is "Some", "None" or
\* "Panic", ts the timestamp when kind is "Some".
CalcResult(ttl, t, e) ==
    [op |-> "add_duration_to_current", ttl |-> ttl, at |-> t,
     kind |-> e.kind, ts |-> e.ts]

InitDates ==
    /\ store = EmptyStore
    /\ now \in 0 .. MaxNow
    /\ overflowChecks \in BOOLEAN
    /\ last \in {CalcInput(ttl) : ttl \in WholeMs}
    /\ savedEver = {}
    /\ evicted = {}
    /\ pending = NoPending

\* dates.rs:13-22 applied to the TTL drawn.
Compute ==
    /\ last.op = "input"
    /\ last' = CalcResult(last.ttl, now,
                          add_duration_to_current(now, last.ttl, overflowChecks))
    /\ UNCHANGED <<store, now, overflowChecks, savedEver, evicted, pending>>

NextDates == Compute

SpecDates == InitDates /\ [][NextDates]_vars

\* ------------------------------------------- a table with other writers
\* The table lives in the database, not in this component: KeyRecord.token is
\* a String (lib.rs:123) and load decodes whatever text select hands back
\* (lib.rs:142, 162).

\* Payload texts that are not the encoding of a SessionState: the JSON text
\* null, and text that is not JSON of the shape of a map of strings.
ForeignTokens ==
    {[form |-> "null", pairs |-> {}], [form |-> "malformed", pairs |-> {}]}

\* Expiries relative to the clock: already expired, expiring now, still live.
ForeignOffsets == {-1, 0, 1}

\* Another writer (or corruption) puts a record with such a payload under an
\* identifier.  The history of calls restarts.  The specification keeps the
\* calls that decode or create a payload: load and save.
ForeignWrite ==
    \E k \in Keys, tok \in ForeignTokens, d \in ForeignOffsets :
        /\ store' = (k :> KeyRecord(k, tok, now + d)) @@ store
        /\ last' = Idle
        /\ UNCHANGED <<now, overflowChecks, savedEver, evicted, pending>>

NextForeign ==
    \/ Tick
    \/ LoadCall
    \/ SaveCall
    \/ ForeignWrite

SpecForeign == Init /\ [][NextForeign]_vars

\* ------------------------------------------------ calls from many callers
\* The store is Clone and each request calls it on its own (lib.rs:76-81).
\* load makes two store calls, the select (lib.rs:142) and, for a record it
\* found expired, the delete (lib.rs:158); each is an await, and the calls
\* of other requests run in between.  Every other operation makes one store
\* call.  One load at a time is followed through its suspension.

\* lib.rs:142-157: the select answered with a record that load finds expired.
LoadFindsExpired(st, t, k, readFail) ==
    ~readFail /\ Has(st, k) /\ IsExpired(st[k], t)

\* lib.rs:158-159: the delete of the identifier whose record was found
\* expired, then Ok(None); a failed delete panics.
loadEvict(st, k, delFail) ==
    LET del == StoreDelete(st, k, delFail)
    IN  IF del.ok THEN Out("None", NoState, "", del.st, "none", "unused")
        ELSE Out("Panic", NoState, "", st, "write", "unused")

\* load up to the answer of its select: it returns at once unless the
\* record is expired, and then it is suspended before its delete.
LoadSelect ==
    /\ pending = NoPending
    /\ \E k \in Keys, readFail \in BOOLEAN :
          IF LoadFindsExpired(store, now, k, readFail)
          THEN /\ pending' = k
               /\ UNCHANGED <<store, now, overflowChecks, last, savedEver, evicted>>
          ELSE /\ Call("load", k, NoState, 0, load(store, now, k, readFail, FALSE))
               /\ UNCHANGED <<savedEver, evicted>>

\* The suspended load resumes: it deletes the identifier and returns.
LoadEvict ==
    /\ pending # NoPending
    /\ \E delFail \in BOOLEAN :
          LET o == loadEvict(store, pending, delFail)
          IN  /\ store' = o.st
              /\ last' = OpRec("load", pending, NoState, 0, o, now,
                               Pre(store, "load", pending),
                               After(last, "load", pending, o))
    /\ pending' = NoPending
    /\ evicted' = evicted \cup {pending}
    /\ UNCHANGED <<now, overflowChecks, savedEver>>

NextConc ==
    \/ Tick
    \/ LoadSelect
    \/ LoadEvict
    \/ SaveCall
    \/ UpdateCall
    \/ UpdateTtlCall
    \/ DeleteCall

SpecConc == Init /\ [][NextConc]_vars

\* ------------------------------------------------------------------ claims

\* C1: a read never returns an expired record as valid.  Whenever load(k)
\* returns Some, the record it read had an expiry not before the clock it
\* compared with; whenever load(k) finds a record whose expiry is before the
\* clock, it returns None and the record for k is gone from the store.
C1_ExpiredNeverValid ==
    last.op = "load" =>
        /\ last.res = "Some" => last.pre.has /\ last.pre.expiry >= last.at
        /\ (last.fail # "read" /\ last.pre.has /\ last.pre.expiry < last.at)
              => last.res = "None" /\ ~Has(store, last.key)

C3_ExtendKeepsPayload ==
    /\ (/\ last.op = "update_ttl"
        /\ last.res = "Ok"
        /\ last.sign = 1
        /\ last.after.op = "load")
          => /\ Has(store, last.key)
             /\ store[last.key].id = last.key
             /\ from_json(store[last.key].token).kind = "Some"
             /\ from_json(store[last.key].token).state = last.after.state
    /\ (/\ last.op = "load"
        /\ last.fail # "read"
        /\ last.after.op = "update_ttl"
        /\ last.after.sign = 1
        /\ last.after.seen)
          => last.res = "Some" /\ last.rstate = last.after.state

\* C3 witness: load, update_ttl with ttl > 0, load, the last returning Some.
C3_Witness ==
    /\ last.op = "load"
    /\ last.after.op = "update_ttl"
    /\ last.after.sign = 1
    /\ last.after.seen
    /\ last.res = "Some"

\* C4: when load(k) finds an expired record and the store's delete of it
\* fails, load still returns None: no error, no panic.
C4_EvictionFailureSwallowed ==
    (/\ last.op = "load"
     /\ last.pre.has
     /\ last.pre.expiry < last.at
     /\ last.fail = "write")
        => last.res = "None"

\* C5: update on an identifier that has no record fails with
\* UpdateError::Other, does not panic, and leaves the identifier without a
\* record.
C5_UpdateOfAbsentFails ==
    (last.op = "update" /\ ~last.pre.has)
        => last.res = "ErrOther" /\ ~Has(store, last.key)

\* C6: per identifier the only transitions are absent -> active by save,
\* active -> active by update or by update_ttl with ttl > 0, and active ->
\* absent by delete, by update_ttl with ttl <= 0, or by a load that found the
\* record expired: no update, update_ttl, load or delete gives an absent
\* identifier a record.
C6_Step(k) ==
    /\ (~Has(store, k) /\ Has(store', k))
          => last'.op = "save" /\ last'.res = "Ok" /\ last'.rkey = k
    /\ (Has(store, k) /\ Has(store', k) /\ store'[k] # store[k])
          => /\ last'.key = k
             /\ last'.res = "Ok"
             /\ \/ last'.op = "update"
                \/ last'.op = "update_ttl" /\ last'.sign = 1
    /\ (Has(store, k) /\ ~Has(store', k))
          => /\ last'.key = k
             /\ \/ last'.op = "delete"
                \/ last'.op = "update_ttl" /\ last'.sign <= 0
                \/ last'.op = "load" /\ store[k].expiry < now

C6_OnlyLifecycleTransitions == [][\A k \in Keys : C6_Step(k)]_vars

\* C6 witness: an update_ttl with ttl > 0 reached the store for an identifier
\* without a record, and the identifier still has none.
C6_Witness ==
    /\ last.op = "update_ttl"
    /\ last.sign = 1
    /\ ~last.pre.has
    /\ last.dur = "Some"
    /\ last.fail = "none"
    /\ last.res = "Err"
    /\ ~Has(store, last.key)
    /\ store # EmptyStore

\* C7: a load that finds the record of k expired returns None, and so does
\* every later load of k (until a save mints k anew).
C7_ExpiredStaysGone ==
    (last.op = "load" /\ last.fail # "read" /\ last.key \in evicted)
        => last.res = "None"

\* C8: for an identifier that no save has returned, load returns None
\* whenever the store answers its read, whatever calls came before.
C8_NeverSavedLoadsNone ==
    /\ \A k \in Keys \ savedEver : ~Has(store, k)
    /\ (last.op = "load" /\ last.fail # "read" /\ last.key \notin savedEver)
          => last.res = "None"

\* C8 witness: a load of a never-saved identifier returned None while another
\* identifier holds a record.
C8_Witness ==
    /\ last.op = "load"
    /\ last.key \notin savedEver
    /\ last.res = "None"
    /\ savedEver # {}
    /\ store # EmptyStore

\* C9: a successful update_ttl(k, ttl) with ttl <= 0 leaves no record for k,
\* and a load(k) right after it returns None.
C9_NonPositiveTtlDeletes ==
    /\ (last.op = "update_ttl" /\ last.sign <= 0 /\ last.res = "Ok")
          => ~Has(store, last.key)
    /\ (/\ last.op = "load"
        /\ last.fail # "read"
        /\ last.after.op = "update_ttl"
        /\ last.after.sign <= 0)
          => last.res = "None" /\ ~last.pre.has

\* C9 witness: load returned Some, update_ttl with ttl = 0, load returned
\* None.
C9_Witness ==
    /\ last.op = "load"
    /\ last.after.op = "update_ttl"
    /\ last.after.sign = 0
    /\ last.after.seen
    /\ last.res = "None"

\* C10: delete is idempotent.  A delete of an identifier without a record
\* returns Ok when the store answers, and a load right after a successful
\* delete (the first or the second) returns None.
C10_DeleteIdempotent ==
    /\ (last.op = "delete" /\ ~last.pre.has /\ last.fail # "write")
          => last.res = "Ok" /\ ~Has(store, last.key)
    /\ (last.op = "load" /\ last.fail # "read" /\ last.after.op = "delete")
          => last.res = "None"

\* C10 witness: two successful deletes of an identifier that had a record,
\* then a load returning None.
C10_Witness ==
    /\ last.op = "load"
    /\ last.after.op = "delete"
    /\ last.after.seen
    /\ last.res = "None"
    /\ last.key \in savedEver

\* C11: the expiry calculator returns None for every TTL whose milliseconds
\* added to the clock exceed the largest representable timestamp, also when
\* the TTL itself fits in an i64; it does not panic.
C11_OverflowGivesNone ==
    (last.op = "add_duration_to_current" /\ last.at + last.ttl > ChronoMax)
        => last.kind = "None"

\* C12: a successful update(k, s, ttl) returns exactly k and leaves under k a
\* record whose identifier is k and whose payload is the encoding of s; with
\* ttl > 0 the record's expiry is the clock plus ttl, and a load(k) right
\* after it returns Some(s).
C12_UpdateReplaces ==
    /\ (last.op = "update" /\ last.res = "Ok")
          => /\ last.rkey = last.key
             /\ Has(store, last.key)
             /\ store[last.key].id = last.key
             /\ store[last.key].token = to_json(last.state)
             /\ last.sign = 1 => store[last.key].expiry = last.at + last.ttl
    /\ (/\ last.op = "load"
        /\ last.fail # "read"
        /\ last.after.op = "update"
        /\ last.after.sign = 1)
          => last.res = "Some" /\ last.rstate = last.after.state

\* C12 witness: after the clock moved, a load right after a successful
\* update with ttl > 0 read a record whose expiry is later than the clock
\* and returned a state.
C12_Witness ==
    /\ last.op = "load"
    /\ last.after.op = "update"
    /\ last.after.sign = 1
    /\ last.res = "Some"
    /\ last.at = MaxNow
    /\ last.pre.expiry > last.at

\* C13: load of a record that is present and not expired and whose payload
\* is not the encoding of a SessionState fails with
\* LoadError::Deserialization (never None, never a state), and the record
\* stays in the store as it was.
C13_UndecodableSurfaces ==
    (/\ last.op = "load"
     /\ last.fail # "read"
     /\ last.pre.has
     /\ last.pre.expiry >= last.at
     /\ last.pre.token.form # "object")
        => /\ last.res = "ErrDeser"
           /\ Has(store, last.key)
           /\ store[last.key].token = last.pre.token
           /\ store[last.key].expiry = last.pre.expiry

\* C14: when the expiry computation returns None, save fails with
\* SaveError::Other, update with UpdateError::Other and update_ttl (ttl > 0)
\* with an error, and the call leaves the store exactly as it was.
C14_Step ==
    last'.dur = "None"
        => /\ store' = store
           /\ last'.op \in {"save", "update", "update_ttl"}
           /\ last'.op \in {"save", "update"} => last'.res = "ErrOther"
           /\ last'.op = "update_ttl" => last'.res = "Err" /\ last'.sign = 1

C14_InvalidDurationNoWrite == [][C14_Step]_vars

\* C14 witness: a save whose expiry computation returned None failed, for
\* an identifier without a record and with the store reachable, while the
\* other identifier holds a record.
C14_Witness ==
    /\ last.op = "save"
    /\ last.dur = "None"
    /\ last.res = "ErrOther"
    /\ ~last.pre.has
    /\ last.fail = "none"
    /\ store # EmptyStore

\* C15: load's eviction removes a record only if it is expired when it is
\* removed.  When an update or an update_ttl with ttl > 0 succeeded on k
\* after a load(k) read the expired record and before that load's delete,
\* so that the record of k is not expired any more, the load's delete leaves
\* the record as it is.
C15_Step ==
    (/\ pending # NoPending
     /\ pending' = NoPending
     /\ last.op \in {"update", "update_ttl"}
     /\ last.key = pending
     /\ last.res = "Ok"
     /\ last.sign = 1
     /\ Has(store, pending)
     /\ store[pending].expiry >= now)
        => Has(store', pending) /\ store'[pending] = store[pending]

C15_EvictsOnlyExpired == [][C15_Step]_vars

\* C16: save never overwrites a record.  When the generated key is the
\* identifier of a record in the store, that record stays as it was and the
\* save, once it reaches its insert, fails with SaveError::Other; a save
\* that succeeds returns a key that had no record, so the keys of the
\* sessions in the store are pairwise distinct.
C16_Step ==
    last'.op = "save"
        => /\ Has(store, last'.key)
                => /\ Has(store', last'.key)
                   /\ store'[last'.key] = store[last'.key]
                   /\ last'.res # "Ok"
                   /\ last'.dur = "Some" => last'.res = "ErrOther"
           /\ last'.res = "Ok"
                => /\ last'.rkey = last'.key
                   /\ ~Has(store, last'.rkey)
                   /\ Has(store', last'.rkey)
                   /\ \A k \in DOMAIN store : store'[k] = store[k]

C16_SaveNeverOverwrites == [][C16_Step]_vars

\* C16 witness: a save whose generated key was taken reached its insert with
\* the store reachable, and failed.
C16_Witness ==
    /\ last.op = "save"
    /\ last.pre.has
    /\ last.dur = "Some"
    /\ last.fail = "none"
    /\ last.res = "ErrOther"
    /\ Has(store, last.key)

\* C17: whenever the expiry calculator returns a timestamp, the timestamp is
\* exactly the clock plus the TTL in milliseconds, for every TTL: zero,
\* negative, and below the smallest i64 (no truncated offset).
C17_ExpiryIsNowPlusTtl ==
    (last.op = "add_duration_to_current" /\ last.kind = "Some")
        => last.ts = last.at + last.ttl

\* C18: a call on identifier k (for save: the generated key) leaves the
\* records of every other identifier as they were, and a load(k) that finds
\* a record that is not expired leaves the whole store as it was.
C18_Step ==
    /\ \A k \in Keys \ {last'.key} :
          /\ Has(store', k) <=> Has(store, k)
          /\ Has(store, k) => store'[k] = store[k]
    /\ (/\ last'.op = "load"
        /\ last'.pre.has
        /\ last'.pre.expiry >= last'.at)
          => store' = store

C18_OtherRecordsUntouched == [][C18_Step]_vars

\* C18 witness: a load removed the expired record of its identifier while
\* the other identifier holds a record.
C18_Witness ==
    /\ last.op = "load"
    /\ last.res = "None"
    /\ last.pre.has
    /\ last.pre.expiry < last.at
    /\ ~Has(store, last.key)
    /\ store # EmptyStore

====
